---- MODULE Spec2Model ----
(***************************************************************************)
(* Model of src/main1.py: the Yandex Disk client (YaDiskUploader), the     *)
(* cataas client (CatImageFetcher), validate_config and the driver main(). *)
(*                                                                         *)
(* Strings are sequences of one-character strings, so that replace() and   *)
(* the f-string concatenations are computed.  Every HTTP request is        *)
(* answered by a response drawn from a small set: the remote services are  *)
(* the environment.                                                         *)
(***************************************************************************)
EXTENDS Integers, Sequences, FiniteSets, TLC

\* ------------------------------------------------------------------ bounds
MaxCaptions == 2        \* longest CAT_TEXTS list of a run
MaxRetriesBound == 3    \* largest max_retries of a direct client call

\* ------------------------------------------------------- program constants
DEFAULT_MAX_RETRIES == 3   \* max_retries=3 of both retrying methods
SETTLE_SECONDS == 2        \* time.sleep(2) after the POST
BACKOFF_BASE == 2          \* wait_time = 2 ** attempt

\* ------------------------------------------------------------------ strings
Str_hello == <<"h", "e", "l", "l", "o">>
Str_world == <<"w", "o", "r", "l", "d">>
Str_big_cat == <<"b", "i", "g", " ", "c", "a", "t">>
Str_empty == <<>>
Str_jpg == <<".", "j", "p", "g">>
Str_token == <<"t", "o", "k">>
Str_folder == <<"c", "a", "t", "s">>
Str_cataas == <<"https://", "cataas.com">>
Str_says == <<"/cat/says/">>
Str_url_path == <<"/cat/", "x1">>
Str_href == <<"https://", "uploader.yandex.net", "/t1">>

\* The captions a run or a direct call is given.  A CAT_TEXTS list is a run of
\* up to MaxCaptions consecutive captions of the cycle hello, world, big cat,
\* "" (empty), started anywhere: every caption is met in every position.
CaptionCycle == <<Str_hello, Str_world, Str_big_cat, Str_empty>>
CaptionPool == {CaptionCycle[i] : i \in 1..Len(CaptionCycle)}
CaptionRun(first, n) ==
    [i \in 1..n |-> CaptionCycle[((first + i - 2) % Len(CaptionCycle)) + 1]]
CaptionLists ==
    {CaptionRun(first, n) : first \in 1..Len(CaptionCycle), n \in 0..MaxCaptions}

\* str.replace(old, new) for one-character old and new
Replace(s, old, new) ==
    [i \in 1..Len(s) |-> IF s[i] = old THEN new ELSE s[i]]

\* f"{text.replace(' ', '_')}.jpg"
Filename(text) == Replace(text, " ", "_") \o Str_jpg

\* f'/{config.YANDEX_DISK_FOLDER}/{filename}'
YandexPath(folder, text) == <<"/">> \o folder \o <<"/">> \o Filename(text)

\* f"https://cataas.com/cat/says/{text}"
FallbackUrl(text) == Str_cataas \o Str_says \o text

\* f"https://cataas.com{data['url']}"
DescriptorUrl(path) == Str_cataas \o path

\* 2 ** attempt
RECURSIVE Pow(_, _)
Pow(b, n) == IF n = 0 THEN 1 ELSE b * Pow(b, n - 1)

\* a linear backoff instead of the exponential one
WaitTime_linear(attempt) == attempt + 1

WaitTime(attempt) == Pow(BACKOFF_BASE, attempt)

\* ---------------------------------------------------------------- responses
\* What one requests.get/put/post call produces: no response at all (the call
\* raises ConnectionError/Timeout), or a status with a body.  body is "empty"
\* (no content), "unparseable" (not JSON), "no_field" (a JSON object without
\* the field the caller reads) or "field" (a JSON object whose field is val).
NetFail == [net |-> "fail", status |-> 0, body |-> "empty", val |-> <<>>]
Reply(status, body, val) ==
    [net |-> "ok", status |-> status, body |-> body, val |-> val]

Sizes == {0, 1234}

ImageResponses ==
    {NetFail, Reply(500, "empty", <<>>), Reply(200, "unparseable", <<>>),
     Reply(200, "no_field", <<>>), Reply(200, "field", Str_url_path)}

LinkResponses ==
    {NetFail, Reply(500, "empty", <<>>), Reply(200, "unparseable", <<>>),
     Reply(200, "no_field", <<>>), Reply(200, "field", Str_href)}

PostResponses ==
    {NetFail, Reply(500, "empty", <<>>), Reply(202, "empty", <<>>),
     Reply(202, "unparseable", <<>>), Reply(202, "field", <<>>)}

SizeResponses ==
    {NetFail, Reply(404, "empty", <<>>), Reply(200, "unparseable", <<>>),
     Reply(200, "no_field", <<>>)}
    \cup {Reply(200, "field", <<n>>) : n \in Sizes}

FolderStatuses == {200, 201, 204, 301, 403, 404, 500}
FolderGetResponses == {NetFail} \cup {Reply(s, "empty", <<>>) : s \in FolderStatuses}
FolderPutResponses == {NetFail} \cup {Reply(s, "empty", <<>>) : s \in {201, 409, 500}}

\* --------------------------------------------------------------- exceptions
NoExc == [type |-> "none", msg |-> ""]
ConnectionError == [type |-> "ConnectionError", msg |-> "connection failed"]
HTTPError == [type |-> "HTTPError", msg |-> "bad status"]
JSONDecodeError == [type |-> "JSONDecodeError", msg |-> "Expecting value"]
ValueError(msg) == [type |-> "ValueError", msg |-> msg]
EmptyTextError == ValueError("Text cannot be empty")
FormatError == ValueError("Invalid API response format")
ConfigError(msg) == ValueError(msg)

\* response.raise_for_status() raises HTTPError
RaisesForStatus(status) == status >= 400 /\ status < 600

\* except Exception: every exception is taken for a transient one
IsRequestException_any(e, json_is_request_exception) == e.type # "none"

\* isinstance(e, requests.RequestException).  response.json() on a body that is
\* not JSON raises requests.exceptions.JSONDecodeError, a RequestException,
\* from requests 2.27 on, and a plain ValueError before: the installed
\* version decides (json_is_request_exception).
IsRequestException(e, json_is_request_exception) ==
    \/ e.type \in {"ConnectionError", "HTTPError"}
    \/ e.type = "JSONDecodeError" /\ json_is_request_exception

IsValueError(e) == e.type \in {"ValueError", "JSONDecodeError"}

\* ------------------------------------------------------ results of a call
Return(val) == [kind |-> "return", val |-> val, exc |-> NoExc]
Raise(e) == [kind |-> "raise", val |-> <<>>, exc |-> e]
NoResult == [kind |-> "none", val |-> <<>>, exc |-> NoExc]

\* ------------------------------------------------------------ YaDiskUploader
\* create_folder: the requests it sends with the statuses it saw (0: no
\* response), and how it ends.
Seen(req, r) == [req |-> req, status |-> r.status]

\* the folder is created whatever the existence check answered
CreateFolder_always_put(g, p) ==
    IF g.net = "fail"
    THEN [requests |-> <<Seen("GET", g)>>, result |-> Raise(ConnectionError)]
    ELSE [requests |-> <<Seen("GET", g), Seen("PUT", p)>>,
          result |-> IF p.net = "fail" THEN Raise(ConnectionError)
                     ELSE IF RaisesForStatus(p.status) THEN Raise(HTTPError)
                     ELSE Return(<<>>)]

CreateFolder(g, p) ==
    IF g.net = "fail"
    THEN [requests |-> <<Seen("GET", g)>>, result |-> Raise(ConnectionError)]
    ELSE IF g.status = 404
    THEN [requests |-> <<Seen("GET", g), Seen("PUT", p)>>,
          result |-> IF p.net = "fail" THEN Raise(ConnectionError)
                     ELSE IF RaisesForStatus(p.status) THEN Raise(HTTPError)
                     ELSE Return(<<>>)]
    ELSE IF g.status = 200
    THEN [requests |-> <<Seen("GET", g)>>, result |-> Return(<<>>)]
    ELSE [requests |-> <<Seen("GET", g)>>,
          result |-> IF RaisesForStatus(g.status) THEN Raise(HTTPError)
                     ELSE Return(<<>>)]

\* get_upload_link: both except clauses end in a raise
GetUploadLink(r) ==
    IF r.net = "fail" THEN Raise(ConnectionError)
    ELSE IF RaisesForStatus(r.status) THEN Raise(HTTPError)
    ELSE IF r.body \in {"empty", "unparseable"} THEN Raise(JSONDecodeError)
    ELSE IF r.body = "no_field" THEN Raise(FormatError)
    ELSE Return(r.val)

\* The try body of one upload_from_url iteration: the requests sent, whether
\* time.sleep(2) ran, and the return value or the exception raised.
UploadTry(link, post) ==
    LET target == GetUploadLink(link)
    IN  IF target.kind = "raise"
        THEN [requests |-> <<"GET upload">>, settled |-> FALSE, result |-> target]
        ELSE IF post.net = "fail"
        THEN [requests |-> <<"GET upload", "POST">>, settled |-> FALSE,
              result |-> Raise(ConnectionError)]
        ELSE IF RaisesForStatus(post.status)
        THEN [requests |-> <<"GET upload", "POST">>, settled |-> FALSE,
              result |-> Raise(HTTPError)]
        ELSE [requests |-> <<"GET upload", "POST">>, settled |-> TRUE,
              result |-> IF post.body \in {"empty", "unparseable"}
                         THEN Raise(JSONDecodeError)
                         ELSE Return(<<>>)]

\* a transient failure is never given up on
OnException_always_retry(e, attempt, max_retries, json_is_request_exception) ==
    IF IsRequestException(e, json_is_request_exception)
    THEN "retry"
    ELSE "propagate"

\* the last attempt sleeps and goes round again instead of raising
OnException_retries_last(e, attempt, max_retries, json_is_request_exception) ==
    IF IsRequestException(e, json_is_request_exception)
    THEN IF attempt <= max_retries THEN "retry" ELSE "raise"
    ELSE "propagate"

\* The except clause shared by both retry loops: "retry" (sleep and go round
\* again), "raise" (the last attempt re-raises) or "propagate" (not caught).
OnException(e, attempt, max_retries, json_is_request_exception) ==
    IF IsRequestException(e, json_is_request_exception)
    THEN IF attempt < max_retries THEN "retry" ELSE "raise"
    ELSE "propagate"

\* get_file_size
GetFileSize(r, json_is_request_exception) ==
    IF r.net = "fail" THEN Return(<<0>>)
    ELSE IF RaisesForStatus(r.status) THEN Return(<<0>>)
    ELSE IF r.body \in {"empty", "unparseable"}
    THEN IF json_is_request_exception THEN Return(<<0>>) ELSE Raise(JSONDecodeError)
    ELSE IF r.body = "no_field" THEN Return(<<0>>)
    ELSE Return(r.val)

\* ----------------------------------------------------------- CatImageFetcher
\* the empty-text check left out
CheckText_unchecked(text) == NoResult

\* if not text: raise ValueError("Text cannot be empty")
CheckText(text) == IF text = <<>> THEN Raise(EmptyTextError) ELSE NoResult

\* The try body of one get_cat_image_url iteration
FetchTry(text, r) ==
    IF r.net = "fail" THEN Raise(ConnectionError)
    ELSE IF RaisesForStatus(r.status) THEN Raise(HTTPError)
    ELSE IF r.body \in {"empty", "unparseable"} THEN Raise(JSONDecodeError)
    ELSE IF r.body = "field" THEN Return(DescriptorUrl(r.val))
    ELSE Return(FallbackUrl(text))

\* ------------------------------------------------------------ validate_config
\* the folder name is not checked
ValidateConfig_skips_folder(c) ==
    IF c.token = <<>> THEN Raise(ConfigError("YANDEX_DISK_TOKEN is missing in config"))
    ELSE IF c.items = <<>> \/ ~c.is_list
    THEN Raise(ConfigError("CAT_TEXTS should be a non-empty list"))
    ELSE Return(<<>>)

ValidateConfig(c) ==
    IF c.token = <<>> THEN Raise(ConfigError("YANDEX_DISK_TOKEN is missing in config"))
    ELSE IF c.folder = <<>>
    THEN Raise(ConfigError("YANDEX_DISK_FOLDER is missing in config"))
    ELSE IF c.items = <<>> \/ ~c.is_list
    THEN Raise(ConfigError("CAT_TEXTS should be a non-empty list"))
    ELSE Return(<<>>)

\* ------------------------------------------------------------------- records
\* str(e)
StrOf(e) == e.msg

\* size >= 0 taken for a known size
SuccessRecord_zero_is_success(folder, text, size) ==
    [filename |-> Filename(text), text |-> text, size |-> size,
     path |-> YandexPath(folder, text),
     status |-> IF size >= 0 THEN "success" ELSE "uploaded_but_size_unknown"]

SuccessRecord(folder, text, size) ==
    [filename |-> Filename(text), text |-> text, size |-> size,
     path |-> YandexPath(folder, text),
     status |-> IF size > 0 THEN "success" ELSE "uploaded_but_size_unknown"]

\* the handler's path keeps the caption's spaces
FailedRecord_raw_path(folder, text, e) ==
    [filename |-> Filename(text), text |-> text, size |-> 0,
     path |-> <<"/">> \o folder \o <<"/">> \o text \o Str_jpg,
     status |-> "failed", error |-> StrOf(e)]

FailedRecord(folder, text, e) ==
    [filename |-> Filename(text), text |-> text, size |-> 0,
     path |-> YandexPath(folder, text), status |-> "failed", error |-> StrOf(e)]

Summary(c, nsuccessful, nfailed, files) ==
    [summary |-> [total |-> Len(c.items), successful |-> nsuccessful,
                  failed |-> nfailed, folder |-> c.folder],
     files |-> files]

\* failures do not reach the exit code
ExitCode_always_zero(nfailed) == 0

ExitCode(nfailed) == IF nfailed > 0 THEN 1 ELSE 0

\* ===================================================================== state
VARIABLES
    json_is_request_exception, \* the installed requests: see IsRequestException
    config,          \* Config(): token, folder, CAT_TEXTS (items, is_list)
    pc,              \* where main() is; "direct": a client method called directly
    idx,             \* how many captions the for loop has taken
    files_info,      \* main's files_info
    successful,      \* main's successful
    failed,          \* main's failed
    exit_code,       \* main's return value, -1 while it runs
    saved,           \* the documents written to files_info.json, in order
    folder_calls,    \* per create_folder call: its requests and its result
    op,              \* the client method in hand: "fetch", "upload", "size", "none"
    cstate,          \* "enter", "loop" (in the for loop), "done" or "idle"
    text,            \* the caption in hand
    max_retries,     \* the method's max_retries
    attempt,         \* the method's loop variable
    hist,            \* direct calls: per finished iteration, what its try body raised
    sleeps,          \* direct calls: the method's time.sleep calls, in order
    result,          \* how the method ended
    log              \* the requests sent for the caption (or call) in hand, in order

client == <<op, cstate, text, max_retries, attempt, hist, sleeps, result, log>>
driver == <<pc, idx, files_info, successful, failed, exit_code, saved,
            folder_calls>>
vars == <<json_is_request_exception, config, client, driver>>

Backoff(secs) == [why |-> "backoff", secs |-> secs]
Settle == [why |-> "settle", secs |-> SETTLE_SECONDS]

\* hist and sleeps observe one call of a retrying method: they are kept for
\* direct calls, where the retry properties are stated.  Under main() the
\* requests of a caption are observed (log).
Observed(h, x) == IF pc = "direct" THEN Append(h, x) ELSE h

Configs ==
    [token : {Str_empty, Str_token}, folder : {Str_empty, Str_folder},
     is_list : BOOLEAN, items : CaptionLists]

NoConfig == [token |-> Str_token, folder |-> Str_folder, is_list |-> TRUE,
             items |-> <<>>]

DriverIdle ==
    /\ idx = 0
    /\ files_info = <<>>
    /\ successful = 0
    /\ failed = 0
    /\ exit_code = -1
    /\ saved = <<>>
    /\ folder_calls = <<>>

ClientIdle ==
    /\ op = "none"
    /\ cstate = "idle"
    /\ text = <<>>
    /\ max_retries = DEFAULT_MAX_RETRIES
    /\ attempt = 0
    /\ hist = <<>>
    /\ sleeps = <<>>
    /\ result = NoResult
    /\ log = <<>>

\* ------------------------------------------------------ the retrying methods
\* get_cat_image_url, up to the loop: the empty-text check
GetCatImageUrlEnter ==
    /\ op = "fetch"
    /\ cstate = "enter"
    /\ result' = CheckText(text)
    /\ cstate' = IF CheckText(text).kind = "raise" THEN "done" ELSE "loop"
    /\ attempt' = 0
    /\ UNCHANGED <<op, text, max_retries, hist, sleeps, log>>
    /\ UNCHANGED <<json_is_request_exception, config, driver>>

\* One iteration of get_cat_image_url's for loop
GetCatImageUrlAttempt ==
    /\ op = "fetch"
    /\ cstate = "loop"
    /\ attempt <= max_retries
    /\ \E r \in ImageResponses :
        LET try == FetchTry(text, r)
            e == try.exc
            on == OnException(e, attempt, max_retries, json_is_request_exception)
        IN  /\ log' = Append(log, "GET image")
            /\ hist' = Observed(hist, e)
            /\ IF try.kind = "return"
               THEN /\ result' = try
                    /\ cstate' = "done"
                    /\ UNCHANGED <<attempt, sleeps>>
               ELSE IF on = "retry"
               THEN /\ sleeps' = Observed(sleeps, Backoff(WaitTime(attempt)))
                    /\ attempt' = attempt + 1
                    /\ UNCHANGED <<result, cstate>>
               ELSE IF on = "raise"
               THEN /\ result' = Raise(e)
                    /\ cstate' = "done"
                    /\ UNCHANGED <<attempt, sleeps>>
               ELSE \* except (ValueError, KeyError): the fallback URL
                    /\ result' = IF IsValueError(e) THEN Return(FallbackUrl(text))
                                 ELSE Raise(e)
                    /\ cstate' = "done"
                    /\ UNCHANGED <<attempt, sleeps>>
    /\ UNCHANGED <<op, text, max_retries>>
    /\ UNCHANGED <<json_is_request_exception, config, driver>>

\* One iteration of upload_from_url's for loop
UploadFromUrlAttempt ==
    /\ op = "upload"
    /\ cstate = "loop"
    /\ attempt <= max_retries
    /\ \E link \in LinkResponses, post \in PostResponses :
        LET try == UploadTry(link, post)
            e == try.result.exc
            on == OnException(e, attempt, max_retries, json_is_request_exception)
            slept == IF try.settled THEN Observed(sleeps, Settle) ELSE sleeps
        IN  /\ log' = log \o try.requests
            /\ hist' = Observed(hist, e)
            /\ IF try.result.kind = "return"
               THEN /\ result' = try.result
                    /\ cstate' = "done"
                    /\ sleeps' = slept
                    /\ UNCHANGED attempt
               ELSE IF on = "retry"
               THEN /\ sleeps' = Observed(slept, Backoff(WaitTime(attempt)))
                    /\ attempt' = attempt + 1
                    /\ UNCHANGED <<result, cstate>>
               ELSE \* the last attempt re-raises; anything else is not caught
                    /\ result' = Raise(e)
                    /\ cstate' = "done"
                    /\ sleeps' = slept
                    /\ UNCHANGED attempt
    /\ UNCHANGED <<op, text, max_retries>>
    /\ UNCHANGED <<json_is_request_exception, config, driver>>

\* ---------------------------------------------------------------------- main
\* except Exception at the end of main
Critical ==
    /\ exit_code' = 1
    /\ pc' = "done"

\* config = Config(); validate_config(config)
MainValidate ==
    /\ pc = "validate"
    /\ IF ValidateConfig(config).kind = "raise"
       THEN Critical
       ELSE /\ pc' = "create_folder"
            /\ UNCHANGED exit_code
    /\ UNCHANGED <<idx, files_info, successful, failed, saved, folder_calls>>
    /\ UNCHANGED <<json_is_request_exception, config, client>>

\* uploader.create_folder(config.YANDEX_DISK_FOLDER) and the three assignments
MainCreateFolder ==
    /\ pc = "create_folder"
    /\ \E g \in FolderGetResponses, p \in FolderPutResponses :
        LET call == CreateFolder(g, p)
        IN  /\ folder_calls' = Append(folder_calls, call)
            /\ IF call.result.kind = "raise"
               THEN Critical
               ELSE /\ pc' = "for"
                    /\ UNCHANGED exit_code
    /\ files_info' = <<>>
    /\ successful' = 0
    /\ failed' = 0
    /\ UNCHANGED <<idx, saved>>
    /\ UNCHANGED <<json_is_request_exception, config, client>>

\* the loop leaves the last caption out
MainFor_stops_early ==
    /\ pc = "for"
    /\ IF idx + 1 < Len(config.items)
       THEN /\ idx' = idx + 1
            /\ text' = config.items[idx + 1]
            /\ op' = "fetch"
            /\ cstate' = "enter"
            /\ pc' = "fetch"
       ELSE /\ pc' = "save"
            /\ UNCHANGED <<idx, text, op, cstate>>
    /\ UNCHANGED <<max_retries, attempt, hist, sleeps, result, log>>
    /\ UNCHANGED <<files_info, successful, failed, exit_code, saved, folder_calls>>
    /\ UNCHANGED <<json_is_request_exception, config>>

\* for text in config.CAT_TEXTS: the next caption, and the call of
\* fetcher.get_cat_image_url(text); after the last caption, on to the save
MainFor ==
    /\ pc = "for"
    /\ IF idx < Len(config.items)
       THEN /\ idx' = idx + 1
            /\ text' = config.items[idx + 1]
            /\ op' = "fetch"
            /\ cstate' = "enter"
            /\ pc' = "fetch"
       ELSE /\ pc' = "save"
            /\ UNCHANGED <<idx, text, op, cstate>>
    /\ UNCHANGED <<max_retries, attempt, hist, sleeps, result, log>>
    /\ UNCHANGED <<files_info, successful, failed, exit_code, saved, folder_calls>>
    /\ UNCHANGED <<json_is_request_exception, config>>

\* The caption in hand is done with: nothing of its calls is kept
Forget ==
    /\ op' = "none"
    /\ cstate' = "idle"
    /\ text' = <<>>
    /\ attempt' = 0
    /\ result' = NoResult
    /\ log' = <<>>
    /\ UNCHANGED <<max_retries, hist, sleeps>>

\* the first failure ends the loop
Except_break(e) ==
    /\ failed' = failed + 1
    /\ files_info' = Append(files_info, FailedRecord(config.folder, text, e))
    /\ pc' = "save"
    /\ Forget
    /\ UNCHANGED successful

\* the handler appends the record and leaves the counter alone
Except_uncounted(e) ==
    /\ files_info' = Append(files_info, FailedRecord(config.folder, text, e))
    /\ pc' = "for"
    /\ Forget
    /\ UNCHANGED <<successful, failed>>

\* except Exception as e, inside the loop
Except(e) ==
    /\ failed' = failed + 1
    /\ files_info' = Append(files_info, FailedRecord(config.folder, text, e))
    /\ pc' = "for"
    /\ Forget
    /\ UNCHANGED successful

\* get_cat_image_url raised
MainFetchRaised ==
    /\ pc = "fetch"
    /\ cstate = "done"
    /\ result.kind = "raise"
    /\ Except(result.exc)
    /\ UNCHANGED <<idx, exit_code, saved, folder_calls>>
    /\ UNCHANGED <<json_is_request_exception, config>>

\* get_cat_image_url returned cat_url: uploader.upload_from_url(yandex_path, cat_url)
MainUpload ==
    /\ pc = "fetch"
    /\ cstate = "done"
    /\ result.kind = "return"
    /\ op' = "upload"
    /\ cstate' = "loop"
    /\ attempt' = 0
    /\ result' = NoResult
    /\ pc' = "upload"
    /\ UNCHANGED <<text, max_retries, hist, sleeps, log>>
    /\ UNCHANGED <<idx, files_info, successful, failed, exit_code, saved,
                   folder_calls>>
    /\ UNCHANGED <<json_is_request_exception, config>>

\* upload_from_url raised
MainUploadRaised ==
    /\ pc = "upload"
    /\ cstate = "done"
    /\ result.kind = "raise"
    /\ Except(result.exc)
    /\ UNCHANGED <<idx, exit_code, saved, folder_calls>>
    /\ UNCHANGED <<json_is_request_exception, config>>

\* the size is asked for whether upload_from_url returned or raised
MainGetFileSize_unguarded ==
    /\ pc = "upload"
    /\ cstate = "done"
    /\ \E r \in SizeResponses :
        result' = GetFileSize(r, json_is_request_exception)
    /\ log' = Append(log, "GET size")
    /\ op' = "size"
    /\ pc' = "size"
    /\ UNCHANGED <<cstate, text, max_retries, attempt, hist, sleeps>>
    /\ UNCHANGED <<idx, files_info, successful, failed, exit_code, saved,
                   folder_calls>>
    /\ UNCHANGED <<json_is_request_exception, config>>

\* upload_from_url returned: size = uploader.get_file_size(yandex_path)
MainGetFileSize ==
    /\ pc = "upload"
    /\ cstate = "done"
    /\ result.kind = "return"
    /\ \E r \in SizeResponses :
        result' = GetFileSize(r, json_is_request_exception)
    /\ log' = Append(log, "GET size")
    /\ op' = "size"
    /\ pc' = "size"
    /\ UNCHANGED <<cstate, text, max_retries, attempt, hist, sleeps>>
    /\ UNCHANGED <<idx, files_info, successful, failed, exit_code, saved,
                   folder_calls>>
    /\ UNCHANGED <<json_is_request_exception, config>>

\* get_file_size raised
MainSizeRaised ==
    /\ pc = "size"
    /\ result.kind = "raise"
    /\ Except(result.exc)
    /\ UNCHANGED <<idx, exit_code, saved, folder_calls>>
    /\ UNCHANGED <<json_is_request_exception, config>>

\* get_file_size returned: the status, the counter, the record
MainRecord ==
    /\ pc = "size"
    /\ result.kind = "return"
    /\ successful' = successful + 1
    /\ files_info' = Append(files_info, SuccessRecord(config.folder, text, result.val[1]))
    /\ pc' = "for"
    /\ Forget
    /\ UNCHANGED <<failed, idx, exit_code, saved, folder_calls>>
    /\ UNCHANGED <<json_is_request_exception, config>>

\* a failed write reaches the handler at the end of main
MainSaveAndExit_write_failure_is_critical ==
    /\ pc = "save"
    /\ \E written \in BOOLEAN :
        /\ saved' = IF written
                    THEN Append(saved, Summary(config, successful, failed, files_info))
                    ELSE saved
        /\ exit_code' = IF written THEN ExitCode(failed) ELSE 1
    /\ pc' = "done"
    /\ UNCHANGED <<idx, files_info, successful, failed, folder_calls>>
    /\ UNCHANGED <<json_is_request_exception, config, client>>

\* the write of files_info.json (which may fail: logged) and the return
MainSaveAndExit ==
    /\ pc = "save"
    /\ \E written \in BOOLEAN :
        saved' = IF written
                 THEN Append(saved, Summary(config, successful, failed, files_info))
                 ELSE saved
    /\ exit_code' = ExitCode(failed)
    /\ pc' = "done"
    /\ UNCHANGED <<idx, files_info, successful, failed, folder_calls>>
    /\ UNCHANGED <<json_is_request_exception, config, client>>

\* ------------------------------------------------------------ specifications
\* One run of main()
Init ==
    /\ json_is_request_exception \in BOOLEAN
    /\ config \in Configs
    /\ pc = "validate"
    /\ DriverIdle
    /\ ClientIdle

Next ==
    \/ MainValidate
    \/ MainCreateFolder
    \/ MainFor
    \/ GetCatImageUrlEnter
    \/ GetCatImageUrlAttempt
    \/ MainFetchRaised
    \/ MainUpload
    \/ UploadFromUrlAttempt
    \/ MainUploadRaised
    \/ MainGetFileSize
    \/ MainSizeRaised
    \/ MainRecord
    \/ MainSaveAndExit

Spec == Init /\ [][Next]_vars

\* One direct call of get_cat_image_url(text, max_retries) or of
\* upload_from_url(yandex_path, file_url, max_retries)
InitClient ==
    /\ json_is_request_exception \in BOOLEAN
    /\ config = NoConfig
    /\ pc = "direct"
    /\ DriverIdle
    /\ op \in {"fetch", "upload"}
    /\ cstate = IF op = "fetch" THEN "enter" ELSE "loop"
    /\ text \in CaptionPool
    /\ max_retries \in 0..MaxRetriesBound
    /\ attempt = 0
    /\ hist = <<>>
    /\ sleeps = <<>>
    /\ result = NoResult
    /\ log = <<>>

NextClient ==
    \/ GetCatImageUrlEnter
    \/ GetCatImageUrlAttempt
    \/ UploadFromUrlAttempt

SpecClient == InitClient /\ [][NextClient]_vars

\* for attempt in range(max_retries + 1) with no iteration left: the method
\* ends without a return statement and the call yields None (no value, here
\* the empty sequence).  Only a negative max_retries gets here: an iteration
\* that leaves attempt = max_retries behind has returned or raised.
ReturnNone == Return(<<>>)

LoopFallsThrough ==
    /\ op \in {"fetch", "upload"}
    /\ cstate = "loop"
    /\ attempt > max_retries
    /\ result' = ReturnNone
    /\ cstate' = "done"
    /\ UNCHANGED <<op, text, max_retries, attempt, hist, sleeps, log>>
    /\ UNCHANGED <<json_is_request_exception, config, driver>>

\* One direct call of either method with any max_retries from -1 on
InitClientAny ==
    /\ json_is_request_exception \in BOOLEAN
    /\ config = NoConfig
    /\ pc = "direct"
    /\ DriverIdle
    /\ op \in {"fetch", "upload"}
    /\ cstate = IF op = "fetch" THEN "enter" ELSE "loop"
    /\ text \in CaptionPool
    /\ max_retries \in -1..MaxRetriesBound
    /\ attempt = 0
    /\ hist = <<>>
    /\ sleeps = <<>>
    /\ result = NoResult
    /\ log = <<>>

NextClientAny ==
    \/ GetCatImageUrlEnter
    \/ GetCatImageUrlAttempt
    \/ UploadFromUrlAttempt
    \/ LoopFallsThrough

SpecClientAny == InitClientAny /\ [][NextClientAny]_vars

\* Two create_folder calls in sequence
FolderCall ==
    /\ pc = "direct"
    /\ Len(folder_calls) < 2
    /\ \E g \in FolderGetResponses, p \in FolderPutResponses :
        folder_calls' = Append(folder_calls, CreateFolder(g, p))
    /\ UNCHANGED <<pc, idx, files_info, successful, failed, exit_code, saved>>
    /\ UNCHANGED <<json_is_request_exception, config, client>>

InitFolder ==
    /\ json_is_request_exception \in BOOLEAN
    /\ config = NoConfig
    /\ pc = "direct"
    /\ DriverIdle
    /\ ClientIdle

NextFolder == FolderCall

SpecFolder == InitFolder /\ [][NextFolder]_vars

\* Either a run of main() or one direct call of a retrying method
InitAll == Init \/ InitClient

SpecAll == InitAll /\ [][Next]_vars

\* ===================================================================== claims
Transient(e) == e.type \in {"ConnectionError", "HTTPError"}

\* 1, 2, 4, ... seconds
Doubling == <<1, 2, 4, 8, 16, 32>>
ExpectedBackoff(n) == [k \in 1..n |-> Backoff(Doubling[k])]

\* The call in hand got n transient failures and then a well-formed reply
FailsThenSucceeds(n) ==
    /\ Len(hist) = n + 1
    /\ \A i \in 1..n : Transient(hist[i])
    /\ hist[n + 1] = NoExc

\* Every one of the first n iterations of the call in hand failed transiently
AllTransient(n) ==
    /\ Len(hist) = n
    /\ \A i \in 1..n : Transient(hist[i])

Attempts == Len(SelectSeq(log, LAMBDA q : q \in {"GET image", "GET upload"}))

\* C1: a direct call of get_cat_image_url or upload_from_url whose HTTP calls
\* fail transiently N times (N <= max_retries) and then succeed returns, and
\* its backoff sleeps are exactly the N sleeps of 1, 2, 4, ... seconds (2^k
\* after the k-th failed attempt, k from 0); upload_from_url then sleeps its
\* 2 seconds after the POST.
C1_RetryThenSuccess ==
    \A n \in 0..max_retries :
        FailsThenSucceeds(n) =>
            /\ cstate = "done"
            /\ result.kind = "return"
            /\ Attempts = n + 1
            /\ sleeps = ExpectedBackoff(n) \o (IF op = "upload" THEN <<Settle>> ELSE <<>>)

C1_Witness ==
    /\ op = "upload"
    /\ max_retries = 3
    /\ FailsThenSucceeds(3)
    /\ result.kind = "return"

\* C2: a direct call of either method whose first max_retries+1 attempts all
\* fail transiently ends after exactly max_retries+1 attempts by raising the
\* last attempt's error; it has taken max_retries backoff sleeps, none after
\* the last attempt; and no call makes more than max_retries+1 attempts.
C2_RetryExhausted ==
    /\ Attempts <= max_retries + 1
    /\ AllTransient(max_retries + 1) =>
            /\ cstate = "done"
            /\ result = Raise(hist[max_retries + 1])
            /\ Attempts = max_retries + 1
            /\ sleeps = ExpectedBackoff(max_retries)

C2_Witness ==
    /\ op = "fetch"
    /\ max_retries = 2
    /\ AllTransient(3)
    /\ hist[1] = ConnectionError
    /\ hist[3] = HTTPError
    /\ result = Raise(HTTPError)

\* C10: get_cat_image_url("") ends by raising ValueError("Text cannot be
\* empty") whatever max_retries is, and sends no request and takes no sleep.
C10_EmptyTextRejected ==
    (op = "fetch" /\ text = <<>>) =>
        /\ cstate \in {"enter", "done"}
        /\ cstate = "done" => result = Raise(EmptyTextError)
        /\ log = <<>>
        /\ sleeps = <<>>
        /\ hist = <<>>

C10_Witness ==
    /\ op = "fetch"
    /\ text = <<>>
    /\ max_retries = MaxRetriesBound
    /\ cstate = "done"
    /\ result.kind = "raise"

\* The requests of all create_folder calls so far, in order
RECURSIVE FolderRequests(_)
FolderRequests(calls) ==
    IF calls = <<>> THEN <<>>
    ELSE calls[1].requests \o FolderRequests(Tail(calls))

IsPut(q) == q.req = "PUT"

\* The existence check of call c was answered with status s
Checked(c, s) == c.requests[1] = [req |-> "GET", status |-> s]

\* Call c created the folder: its PUT was answered without an error status
Created(c) ==
    /\ Len(c.requests) = 2
    /\ c.requests[2].req = "PUT"
    /\ c.requests[2].status \in {200, 201}

\* C7: of two create_folder calls in sequence, where the first is answered 404
\* and then creates the folder, and the second is answered 200: neither
\* raises, the first sends exactly one PUT and the second none.
C7_EnsureFolderIdempotent ==
    /\ \A i \in 1..Len(folder_calls) :
          /\ Checked(folder_calls[i], 404) =>
                /\ Len(folder_calls[i].requests) = 2
                /\ IsPut(folder_calls[i].requests[2])
          /\ Checked(folder_calls[i], 200) =>
                /\ folder_calls[i].requests = <<[req |-> "GET", status |-> 200]>>
                /\ folder_calls[i].result.kind = "return"
    /\ (/\ Len(folder_calls) = 2
        /\ Checked(folder_calls[1], 404)
        /\ Created(folder_calls[1])
        /\ Checked(folder_calls[2], 200)) =>
            /\ folder_calls[1].result.kind = "return"
            /\ folder_calls[2].result.kind = "return"
            /\ Len(SelectSeq(FolderRequests(folder_calls), IsPut)) = 1

C7_Witness ==
    /\ Len(folder_calls) = 2
    /\ Checked(folder_calls[1], 404)
    /\ Created(folder_calls[1])
    /\ Checked(folder_calls[2], 200)
    /\ folder_calls[2].result.kind = "return"

\* C8: create_folder raises whenever the existence check gets no response or
\* a status other than 404 and 200, and returns only when it saw 200 or
\* created the folder.
C8_EnsureFolderFailsOnOtherStatus ==
    \A i \in 1..Len(folder_calls) :
        LET c == folder_calls[i]
        IN  /\ ~(Checked(c, 404) \/ Checked(c, 200)) => c.result.kind = "raise"
            /\ c.result.kind = "return" => (Checked(c, 200) \/ Created(c))

\* ------------------------------------------------------------- main's claims
ConfigInvalid ==
    \/ config.token = <<>>
    \/ config.folder = <<>>
    \/ config.items = <<>>
    \/ ~config.is_list

FolderRaised == folder_calls # <<>> /\ folder_calls[1].result.kind = "raise"

FolderReturned == folder_calls # <<>> /\ folder_calls[1].result.kind = "return"

AnyFailed == \E i \in 1..Len(files_info) : files_info[i].status = "failed"

\* The captions whose processing is over
Processed == IF pc \in {"fetch", "upload", "size"} THEN idx - 1 ELSE idx

InOrder == \A i \in 1..Len(files_info) : files_info[i].text = config.items[i]

C3_Records ==
    /\ pc \in {"for", "fetch", "upload", "size", "save"} =>
          /\ Len(files_info) = Processed
          /\ InOrder
          /\ exit_code = -1
    /\ pc = "save" => idx = Len(config.items)
    /\ (pc = "done" /\ FolderReturned) =>
          /\ Len(files_info) = Len(config.items)
          /\ InOrder

C3_Caught ==
    (pc \in {"fetch", "upload", "size"} /\ result.kind = "raise") =>
        /\ pc' = "for"
        /\ exit_code' = -1
        /\ Len(files_info') = Len(files_info) + 1
        /\ SubSeq(files_info', 1, Len(files_info)) = files_info
        /\ files_info'[Len(files_info')].status = "failed"
        /\ files_info'[Len(files_info')].text = config.items[idx]

\* C3: an exception raised by get_cat_image_url, upload_from_url or the size
\* step while a caption is processed is caught in the loop: a failed record
\* for that caption is appended and the loop goes on; when the loop is over
\* every caption has exactly one record, in the order of CAT_TEXTS.
C3_PerCaptionIsolation == []C3_Records /\ [][C3_Caught]_vars

C3_Witness ==
    /\ pc = "done"
    /\ Len(config.items) = 2
    /\ Len(files_info) = 2
    /\ files_info[1].status = "failed"
    /\ files_info[2].status = "success"

C4_Classified ==
    Len(files_info') = Len(files_info) + 1 =>
        LET r == files_info'[Len(files_info')]
        IN  /\ result.kind \in {"raise", "return"}
            /\ result.kind = "raise" =>
                  /\ r.status = "failed"
                  /\ r.size = 0
                  /\ "error" \in DOMAIN r
                  /\ r.error # ""
            /\ result.kind = "return" =>
                  /\ pc = "size"
                  /\ r.size = result.val[1]
                  /\ r.size > 0 => r.status = "success"
                  /\ r.size = 0 => r.status = "uploaded_but_size_unknown"
                  /\ "error" \notin DOMAIN r

C4_Scenario ==
    (/\ config.items = <<Str_hello, Str_world>>
     /\ saved # <<>>
     /\ files_info[1].status # "failed" /\ files_info[1].size = 1234
     /\ files_info[2].status # "failed" /\ files_info[2].size = 0) =>
        /\ saved[1].summary =
              [total |-> 2, successful |-> 2, failed |-> 0, folder |-> config.folder]
        /\ Len(saved[1].files) = 2
        /\ saved[1].files[1].status = "success"
        /\ saved[1].files[1].filename = <<"h", "e", "l", "l", "o", ".", "j", "p", "g">>
        /\ saved[1].files[2].status = "uploaded_but_size_unknown"
        /\ saved[1].files[2].filename = <<"w", "o", "r", "l", "d", ".", "j", "p", "g">>

\* C4: the record appended for a caption has status "failed", size 0 and a
\* non-empty error when a step raised; otherwise it has no error and its
\* status is "success" when get_file_size returned a size > 0 and
\* "uploaded_but_size_unknown" when it returned 0.  For CAT_TEXTS
\* ["hello", "world"] stored with sizes 1234 and 0 the written summary is
\* total 2, successful 2, failed 0, with statuses success and
\* uploaded_but_size_unknown and filenames hello.jpg and world.jpg.
C4_StatusClassification == []C4_Scenario /\ [][C4_Classified]_vars

C4_Witness ==
    /\ pc = "done"
    /\ config.items = <<Str_hello, Str_world>>
    /\ saved # <<>>
    /\ saved[1].files[1].size = 1234
    /\ saved[1].files[1].status = "success"
    /\ saved[1].files[2].status = "uploaded_but_size_unknown"

C5_Exit ==
    /\ pc = "done" <=> exit_code # -1
    /\ pc = "done" =>
          exit_code = IF ConfigInvalid \/ FolderRaised \/ AnyFailed THEN 1 ELSE 0
    /\ (pc = "done" /\ Len(config.items) = 1 /\ AnyFailed) =>
          /\ exit_code = 1
          /\ files_info[1].error # ""
          /\ saved # <<>> =>
                /\ saved[1].summary.total = 1
                /\ saved[1].summary.successful = 0
                /\ saved[1].summary.failed = 1
                /\ saved[1].files = files_info

C5_StoreRaised ==
    (pc = "upload" /\ cstate = "done" /\ result.kind = "raise") =>
        /\ failed' = failed + 1
        /\ successful' = successful
        /\ files_info'[Len(files_info')].status = "failed"
        /\ files_info'[Len(files_info')].error = result.exc.msg

\* C5: main returns 1 when the configuration is invalid, create_folder raised
\* or some caption has a failed record, and 0 otherwise.  A caption whose
\* upload_from_url raised is counted as failed with a non-empty error; a run
\* of one caption that failed writes total 1, successful 0, failed 1 and
\* returns 1.
C5_ExitCode == []C5_Exit /\ [][C5_StoreRaised]_vars

C5_Witness ==
    /\ pc = "done"
    /\ Len(config.items) = 1
    /\ config.items[1] # <<>>
    /\ Len(files_info) = 1
    /\ files_info[1].status = "failed"
    /\ files_info[1].error = HTTPError.msg
    /\ saved # <<>>
    /\ exit_code = 1

NothingProcessed ==
    /\ idx = 0
    /\ files_info = <<>>
    /\ op = "none"
    /\ log = <<>>
    /\ saved = <<>>

\* C6: with an empty token, an empty folder name, or an empty or non-list
\* CAT_TEXTS, main sends no request at all (not even the folder check); when
\* create_folder raises, main ends at once.  In both cases no caption is
\* taken, no image, upload-link, POST or size request is sent, nothing is
\* written to files_info.json and main returns 1.
C6_FatalErrorsAbort ==
    /\ ConfigInvalid =>
          /\ pc \in {"validate", "done"}
          /\ folder_calls = <<>>
          /\ NothingProcessed
    /\ FolderRaised =>
          /\ pc = "done"
          /\ NothingProcessed
    /\ (pc = "done" /\ (ConfigInvalid \/ FolderRaised)) => exit_code = 1

C6_Witness ==
    /\ pc = "done"
    /\ FolderRaised
    /\ exit_code = 1

\* C9: get_file_size never raises: whatever the metadata request is answered,
\* it returns the size of the reply or 0, so the size step alone never
\* makes a stored caption a failed one.
C9_SizeLookupIsSoft ==
    pc = "size" =>
        /\ result.kind = "return"
        /\ result.val \in {<<n>> : n \in Sizes}

\* ------------------------------------------------- get_cat_image_url's replies
\* The reply is a successful one whose body is not the descriptor
Malformed(r) ==
    /\ r.net = "ok"
    /\ ~RaisesForStatus(r.status)
    /\ r.body \in {"unparseable", "no_field"}

\* What the iteration in hand does with reply r: it returns the fallback URL
FallsBack(r) ==
    LET try == FetchTry(text, r)
    IN  \/ try = Return(FallbackUrl(text))
        \/ /\ try.kind = "raise"
           /\ OnException(try.exc, attempt, max_retries,
                          json_is_request_exception) = "propagate"
           /\ IsValueError(try.exc)

\* C11: get_cat_image_url answers a malformed reply (no url field, or a body
\* that is not JSON) by returning the fallback URL of text at once: the
\* iteration that got it is the last one, and no backoff sleep follows it.
C11_MalformedFallsBack ==
    /\ (op = "fetch" /\ cstate = "loop") =>
          \A r \in ImageResponses : Malformed(r) => FallsBack(r)
    /\ op = "fetch" =>
          \A i \in 1..Len(hist) :
              hist[i] = JSONDecodeError =>
                  /\ i = Len(hist)
                  /\ cstate = "done"
                  /\ result = Return(FallbackUrl(text))
                  /\ Len(sleeps) = i - 1

\* C12: for a non-empty text, whatever max_retries is and whatever the image
\* API answers, a get_cat_image_url call that returns returns a non-empty
\* absolute URL (never an empty value, never None).
C12_ReturnsAbsoluteUrl ==
    (op = "fetch" /\ text # <<>> /\ cstate = "done" /\ result.kind = "return") =>
        /\ result.val # <<>>
        /\ result.val[1] = "https://"

\* ----------------------------------------------------------- the run of main
\* Steps a caption still has before it: the empty-text check, max_retries + 1
\* image requests, the call of upload_from_url, max_retries + 1 store
\* attempts, the size query, the record
Within ==
    CASE pc = "fetch" /\ cstate = "enter" -> 2 * (max_retries + 1) + 4
      [] pc = "fetch" /\ cstate = "loop" -> 2 * (max_retries + 1) + 3 - attempt
      [] pc = "fetch" /\ cstate = "done" -> max_retries + 4
      [] pc = "upload" /\ cstate = "loop" -> max_retries + 3 - attempt
      [] pc = "upload" /\ cstate = "done" -> 2
      [] pc = "size" -> 1
      [] OTHER -> 0

\* Steps the run of main still has before it, at most
Measure ==
    LET percaption == 2 * (max_retries + 1) + 5
        n == Len(config.items)
    IN  CASE pc = "validate" -> n * percaption + 4
          [] pc = "create_folder" -> n * percaption + 3
          [] pc \in {"for", "fetch", "upload", "size"} ->
                (n - idx) * percaption + 2 + Within
          [] pc = "save" -> 1
          [] OTHER -> 0

C13_Written ==
    /\ Len(saved) <= 1
    /\ saved # <<>> =>
          /\ pc = "done"
          /\ saved[1].files = files_info
          /\ Len(saved[1].files) = Len(config.items)
          /\ \A i \in 1..Len(config.items) :
                saved[1].files[i].text = config.items[i]
    /\ (FolderReturned /\ pc # "done") => ENABLED Next

C13_WriteStep ==
    /\ saved' # saved =>
          /\ pc = "save"
          /\ saved = <<>>
          /\ idx = Len(config.items)
          /\ Len(files_info) = Len(config.items)
    /\ pc = "save" => pc' = "done" /\ Len(saved') <= 1
    /\ (FolderReturned /\ pc' = "done") => pc = "save"
    /\ FolderReturned => Measure' < Measure /\ Measure' >= 0

C14_Counters ==
    /\ successful + failed = Len(files_info)
    /\ Len(files_info) = Processed
    /\ failed = Cardinality({i \in 1..Len(files_info) :
                                files_info[i].status = "failed"})
    /\ \A k \in 1..Len(saved) :
          /\ saved[k].summary.successful = successful
          /\ saved[k].summary.failed = failed
          /\ saved[k].summary.total = successful + failed
          /\ saved[k].summary.total = Len(saved[k].files)

C14_Witness ==
    /\ pc = "done"
    /\ saved # <<>>
    /\ saved[1].summary.successful >= 1
    /\ saved[1].summary.failed >= 1

\* The requests of the caption in hand, by kind
Count(q) == Len(SelectSeq(log, LAMBDA x : x = q))

C15_Sequence ==
    \A i \in 1..Len(log) :
        /\ log[i] = "GET image" => \A j \in 1..i : log[j] = "GET image"
        /\ log[i] = "GET upload" => pc \in {"upload", "size"} /\ log[1] = "GET image"
        /\ log[i] = "POST" => i > 1 /\ log[i - 1] = "GET upload"
        /\ log[i] = "GET size" =>
              /\ i = Len(log)
              /\ pc = "size"
              /\ i > 1 /\ log[i - 1] = "POST"

C15_Step ==
    /\ log' = <<>> \/ SubSeq(log', 1, Len(log)) = log
    /\ (pc' = "upload" /\ pc # "upload") =>
          /\ pc = "fetch" /\ cstate = "done"
          /\ result.kind = "return" /\ result.val # <<>>
          /\ log' = log
    /\ (Len(log') > Len(log) /\ log'[Len(log')] = "GET size") =>
          /\ pc = "upload" /\ cstate = "done"
          /\ result.kind = "return"
    /\ (pc \in {"fetch", "upload"} /\ cstate = "done" /\ result.kind = "raise") =>
          /\ log' = <<>>
          /\ pc' = "for"
          /\ files_info' = Append(files_info,
                                  FailedRecord(config.folder, text, result.exc))

\* C15: the remote calls of one caption come in order: every image request
\* before the first write-target request, which is sent only once
\* get_cat_image_url has returned a URL; a POST only right after the
\* write-target request of its attempt; the size query last, once, and only
\* after upload_from_url returned.  When either call raised, the next step
\* records the failure and sends nothing more for that caption.
C15_CallOrder == []C15_Sequence /\ [][C15_Step]_vars

C15_Witness ==
    /\ pc = "size"
    /\ log = <<"GET image", "GET image", "GET upload", "GET upload", "POST",
               "GET upload", "POST", "GET size">>

BackoffSleeps == Len(SelectSeq(sleeps, LAMBDA x : x.why = "backoff"))

C16_Propagated ==
    /\ (pc = "direct" /\ op = "upload") =>
          \A i \in 1..Len(hist) :
              hist[i] = FormatError =>
                  /\ i = Len(hist)
                  /\ cstate = "done"
                  /\ result = Raise(FormatError)
                  /\ attempt = i - 1
                  /\ BackoffSleeps = i - 1
                  /\ Count("GET upload") = i
                  /\ log[Len(log)] = "GET upload"
    /\ (pc = "upload" /\ result = Raise(FormatError)) =>
          /\ cstate = "done"
          /\ Count("GET upload") = attempt + 1
          /\ log[Len(log)] = "GET upload"

C16_Recorded ==
    (pc = "upload" /\ result = Raise(FormatError)) =>
        /\ failed' = failed + 1
        /\ successful' = successful
        /\ Len(files_info') = Len(files_info) + 1
        /\ files_info'[Len(files_info')].status = "failed"
        /\ files_info'[Len(files_info')].error = "Invalid API response format"
        /\ files_info'[Len(files_info')].text = text
        /\ log' = <<>>

\* C16: when get_upload_link raises "Invalid API response format" inside
\* upload_from_url, the iteration in hand is the last: the error comes out of
\* upload_from_url as it is, with no backoff sleep for that attempt and no
\* request after the one that got the reply, whatever max_retries is; in a
\* run of main the caption is then recorded as failed with that error.
C16_FormatErrorNotRetried == []C16_Propagated /\ [][C16_Recorded]_vars

C16_Witness ==
    /\ pc = "for"
    /\ files_info # <<>>
    /\ files_info[Len(files_info)].status = "failed"
    /\ files_info[Len(files_info)].error = "Invalid API response format"

C17_Swallowed ==
    (pc = "done" /\ FolderReturned /\ saved = <<>>) =>
        /\ exit_code = IF AnyFailed THEN 1 ELSE 0
        /\ Len(files_info) = Len(config.items)

C17_SaveStep ==
    pc = "save" =>
        /\ pc' = "done"
        /\ exit_code' = IF AnyFailed THEN 1 ELSE 0
        /\ saved' = saved \/ Len(saved') = 1

\* C17: when the write of files_info.json fails, main still ends in the
\* step after the loop with the exit code the captions alone decide: 1 when
\* some caption failed, 0 otherwise; so main can return 0 with no document
\* written.
C17_WriteFailureSwallowed == []C17_Swallowed /\ [][C17_SaveStep]_vars

C17_Witness ==
    /\ pc = "done"
    /\ FolderReturned
    /\ files_info # <<>>
    /\ saved = <<>>
    /\ exit_code = 0

\* The caption with every space turned into an underscore
RECURSIVE Underscored(_)
Underscored(s) ==
    IF s = <<>> THEN <<>>
    ELSE <<IF Head(s) = " " THEN "_" ELSE Head(s)>> \o Underscored(Tail(s))

BigCatPath ==
    <<"/", "c", "a", "t", "s", "/", "b", "i", "g", "_", "c", "a", "t",
      ".", "j", "p", "g">>

\* C18: every record of main, successful or failed, has the caption with its
\* spaces replaced by underscores followed by ".jpg" as filename, and "/",
\* the folder, "/", the filename as path: "big cat" in folder "cats" gives
\* "/cats/big_cat.jpg".
C18_Derivation ==
    \A i \in 1..Len(files_info) :
        LET rec == files_info[i]
        IN  /\ rec.text = config.items[i]
            /\ rec.filename = Underscored(rec.text) \o <<".", "j", "p", "g">>
            /\ \A k \in 1..Len(rec.filename) : rec.filename[k] # " "
            /\ rec.path = <<"/">> \o config.folder \o <<"/">> \o rec.filename
            /\ rec.text = <<"b", "i", "g", " ", "c", "a", "t">> =>
                  rec.path = BigCatPath

C18_Witness ==
    \E i, j \in 1..Len(files_info) :
        /\ files_info[i].status = "failed"
        /\ files_info[i].path = BigCatPath
        /\ files_info[j].status = "success"

C19_Bounds ==
    /\ max_retries = DEFAULT_MAX_RETRIES
    /\ Count("GET image") <= DEFAULT_MAX_RETRIES + 1
    /\ Count("GET upload") <= DEFAULT_MAX_RETRIES + 1
    /\ Count("POST") <= DEFAULT_MAX_RETRIES + 1
    /\ Count("GET size") <= 1
    /\ Len(folder_calls) <= 1
    /\ \A k \in 1..Len(folder_calls) :
          /\ Len(folder_calls[k].requests) <= 2
          /\ Len(SelectSeq(folder_calls[k].requests, IsPut)) <= 1
    /\ pc # "done" => ENABLED Next /\ exit_code = -1
    /\ pc = "done" => exit_code \in {0, 1}
    /\ Measure >= 0
    /\ Measure = 0 <=> pc = "done"

C19_Step == Measure' < Measure

\* C19: a run of main over a finite CAT_TEXTS with the default max_retries of 3
\* ends with exit code 0 or 1: it is never stuck before the end and a
\* bounded count of the steps left decreases at every step.  For one caption
\* it sends at most 4 image requests, 4 write-target requests, 4 POSTs and 1
\* size query, and for the run at most one folder check (with at most one
\* creation).
C19_BoundedWork == []C19_Bounds /\ [][C19_Step]_vars

C19_Witness ==
    /\ pc = "size"
    /\ idx = MaxCaptions
    /\ Count("GET image") = DEFAULT_MAX_RETRIES + 1
    /\ Count("GET upload") = DEFAULT_MAX_RETRIES + 1
    /\ Count("POST") = DEFAULT_MAX_RETRIES + 1
    /\ Count("GET size") = 1
    /\ Len(folder_calls) = 1
    /\ Len(folder_calls[1].requests) = 2

====
